---- MODULE Spec2Model ----
(***************************************************************************)
(* Model of playstore/publish.go: expansion-file, mapping-file, bundle and *)
(* apk uploads, the localised release-notes reader and the construction of *)
(* a track release.                                                        *)
(*                                                                         *)
(* Strings are sequences of tokens.  A token is either one rune (":", " ", *)
(* "%", "/") or a run of text that none of the string operations of the    *)
(* code can cut ("main", "whatsnew-", "en-US").                            *)
(* googleapi.Int64s version codes and InAppUpdatePriority are copied into  *)
(* the release unchanged and are left out of the release record.           *)
(***************************************************************************)
EXTENDS Integers, Sequences, FiniteSets, TLC

VARIABLES
    pc,               \* "idle": between calls, "done": a call has returned,
                      \* otherwise the position inside an upload
    op,               \* the function called last ("none" before the first call)
    expFileEntry,     \* uploadExpansionFiles: the expFileEntry argument
    expFilePth,       \* uploadExpansionFiles: path returned by expFileInfo
    expFileType,      \* uploadExpansionFiles: type returned by expFileInfo
    err,              \* the error returned by the function ("nil": none)
    opened,           \* os.Open calls made by the function so far
    netCalls,         \* remote Do() calls made by the function so far
    failed,           \* the steps of the function that failed
    openFiles,        \* file handles of the process that are open
    remoteErr,        \* text of the error the remote call answered with
    msg,              \* uploadAppBundle: text of the returned error
    artifact,         \* the bundle / apk returned ("nil": none)
    config,           \* createTrackRelease: the Configs argument
    newRelease,       \* createTrackRelease: the returned TrackRelease
    recentChangesDir, \* readLocalisedRecentChanges: the directory argument
    files,            \* the files of that directory: name -> content
    recentChangesMap, \* map returned by readLocalisedRecentChanges
    readErr,          \* error returned by readLocalisedRecentChanges
    readerCalls       \* calls of readLocalisedRecentChanges by the function

vars == <<pc, op, expFileEntry, expFilePth, expFileType, err, opened, netCalls,
          failed, openFiles, remoteErr, msg, artifact, config, newRelease,
          recentChangesDir, files, recentChangesMap, readErr, readerCalls>>

----------------------------------------------------------------------------
(* Bounds *)

MaxEntryLen == 5      \* longest expansion file entry, in tokens
MaxErrLen == 3        \* longest remote error text, in tokens
MaxOpenFiles == 2     \* file descriptors the process may hold

----------------------------------------------------------------------------
(* Constants of the package *)

releaseStatusCompleted == "completed"
releaseStatusInProgress == "inProgress"
releaseStatusDraft == "draft"
releaseStatusHalted == "halted"

bundleInstallationWarning ==
    << "Error 403: The installation of the app bundle may be too large ",
       "and trigger user warning on some devices, and this needs to be explicitly acknowledged in the request." >>

----------------------------------------------------------------------------
(* package strings *)

RECURSIVE TrimLeft(_)
TrimLeft(s) ==
    IF s # <<>> /\ Head(s) = " " THEN TrimLeft(Tail(s)) ELSE s

RECURSIVE TrimRight(_)
TrimRight(s) ==
    IF s # <<>> /\ s[Len(s)] = " " THEN TrimRight(SubSeq(s, 1, Len(s) - 1)) ELSE s

TrimSpace(s) == TrimRight(TrimLeft(s))

HasPrefix(s, prefix) ==
    Len(s) >= Len(prefix) /\ SubSeq(s, 1, Len(prefix)) = prefix

Contains(s, substr) ==
    \E i \in 0..(Len(s) - Len(substr)) : SubSeq(s, i + 1, i + Len(substr)) = substr

\* strings.Split(s, sep) for a one-rune separator: always at least one part
RECURSIVE Split(_, _)
Split(s, sep) ==
    IF \A i \in 1..Len(s) : s[i] # sep
    THEN << s >>
    ELSE LET i == CHOOSE k \in 1..Len(s) :
                      s[k] = sep /\ \A j \in 1..(k - 1) : s[j] # sep
         IN  << SubSeq(s, 1, i - 1) >> \o Split(SubSeq(s, i + 1, Len(s)), sep)

RECURSIVE Join(_, _)
Join(elems, sep) ==
    IF elems = <<>> THEN <<>>
    ELSE IF Len(elems) = 1 THEN elems[1]
    ELSE elems[1] \o sep \o Join(Tail(elems), sep)

----------------------------------------------------------------------------
(* expansion file entries *)

expFileInfo(expFileConfigEntry) ==
    LET expansionFilePathSplit == Split(expFileConfigEntry, ":")
    IN  IF Len(expansionFilePathSplit) < 2
        THEN [pth |-> <<>>, type |-> <<>>, err |-> "malformed expansion file path"]
        ELSE [pth  |-> TrimSpace(Join(Tail(expansionFilePathSplit), <<>>)),
              type |-> TrimSpace(expansionFilePathSplit[1]),
              err  |-> "nil"]

validateExpansionFileConfigLax(expFileEntry_) ==
    Contains(TrimSpace(expFileEntry_), <<":">>)

validateExpansionFileConfig(expFileEntry_) ==
    LET cleanExpFileConfigEntry == TrimSpace(expFileEntry_)
    IN  \/ HasPrefix(cleanExpFileConfigEntry, <<"main", ":">>)
        \/ HasPrefix(cleanExpFileConfigEntry, <<"patch", ":">>)

EntryAlphabet == {"main", "patch", "Main", ":", " ", "a"}

Entries == UNION {[1..n -> EntryAlphabet] : n \in 0..MaxEntryLen}

----------------------------------------------------------------------------
(* package fmt *)

\* the first rune of a token, read as the verb of a "%" directive
Verb(t) ==
    CASE t = bundleInstallationWarning[1] -> "E"
      [] t = bundleInstallationWarning[2] -> "a"
      [] OTHER -> t

\* what is left of a token after its first rune
Rest(t) ==
    CASE t = bundleInstallationWarning[1] ->
            << "rror 403: The installation of the app bundle may be too large " >>
      [] t = bundleInstallationWarning[2] ->
            << "nd trigger user warning on some devices, and this needs to be explicitly acknowledged in the request." >>
      [] OTHER -> <<>>

\* fmt.Errorf(format) without operands: "%%" prints "%", a "%" that ends the
\* format prints "%!(NOVERB)", any other "%c" prints "%!c(MISSING)"
RECURSIVE Errorf(_)
Errorf(format) ==
    IF format = <<>> THEN <<>>
    ELSE IF Head(format) # "%" THEN << Head(format) >> \o Errorf(Tail(format))
    ELSE IF Len(format) = 1 THEN << "%!(NOVERB)" >>
    ELSE IF format[2] = "%" THEN << "%" >> \o Errorf(Tail(Tail(format)))
    ELSE << "%!", Verb(format[2]), "(MISSING)" >> \o Rest(format[2])
             \o Errorf(Tail(Tail(format)))

uploadAppBundleContext == << "failed to upload app bundle, error: " >>

ackHint ==
    << "\n",
       "To acknowledge this warning, set the Acknowledge Bundle Installation Warning (ack_bundle_installation_warning) input to true." >>

\* the error uploadAppBundle returns when Do() answers with error text e
uploadAppBundleError(e) ==
    LET msg1 == uploadAppBundleContext \o e
        msg2 == IF Contains(e, bundleInstallationWarning)
                THEN msg1 \o ackHint
                ELSE msg1
    IN  Errorf(msg2)

ErrAlphabet ==
    {"%", "x", bundleInstallationWarning[1], bundleInstallationWarning[2]}

ErrTexts == UNION {[1..n -> ErrAlphabet] : n \in 1..MaxErrLen}

----------------------------------------------------------------------------
(* release notes *)

\* the names a directory may hold, in the order filepath.Glob lists them
DirListing ==
    << <<"notes.txt">>, <<"whatsnew-", "_x">>, <<"whatsnew-", "en-US">>,
       <<"whatsnew-", "fr">> >>

FileNames == {DirListing[i] : i \in 1..Len(DirListing)}

\* a file is absent, cannot be read, or holds one of two texts
FileStates == {"absent", "unreadable", "text one", "text two"}

FileSystems == [FileNames -> FileStates]

NoFiles == [n \in FileNames |-> "absent"]

\* the current directory, a plain directory, a directory whose name holds
\* "whatsnew-", and a name filepath.Match rejects as a pattern
Dirs == { <<>>, <<"notes">>, <<"ci", "/", "whatsnew-", "texts">>, <<"[">> }

\* filepath.Join(recentChangesDir, name)
PathJoin(dir, name) == IF dir = <<>> THEN name ELSE dir \o <<"/">> \o name

\* filepath.ErrBadPattern: an unclosed "[" in the pattern
BadPattern(pattern) == \E i \in 1..Len(pattern) : pattern[i] = "["

\* filepath.Glob(filepath.Join(dir, "whatsnew-*")): the sorted paths of the
\* files of dir whose name starts with "whatsnew-"
Glob(dir, fs) ==
    LET matching == SelectSeq(DirListing,
                        LAMBDA n : fs[n] # "absent" /\ HasPrefix(n, <<"whatsnew-">>))
    IN  [i \in 1..Len(matching) |-> PathJoin(dir, matching[i])]

\* [0-9a-zA-Z]: the tokens that start with a letter or a digit
Alnum(t) == t \notin {"_x", "/", "[", " ", ":", "%", "\n"}

\* re.FindStringSubmatch(path)[1] for whatsnew-(?P<locale>([0-9a-zA-Z].*(-|$))+):
\* the leftmost "whatsnew-" that a letter or digit follows starts the match and
\* the greedy .* runs to the end of the path; <<>> when nothing matches
FindLocale(path) ==
    LET starts == {i \in 1..(Len(path) - 1) :
                       path[i] = "whatsnew-" /\ Alnum(path[i + 1])}
    IN  IF starts = {} THEN <<>>
        ELSE LET i == CHOOSE k \in starts : \A j \in starts : k <= j
             IN  SubSeq(path, i + 1, Len(path))

\* the name of the file behind a path of directory dir
BaseName(dir, path) == SubSeq(path, Len(PathJoin(dir, <<>>)) + 1, Len(path))

\* the loop of readLocalisedRecentChanges over recentChangesPaths[i..]
RECURSIVE ReadLoop(_, _, _, _, _)
ReadLoop(dir, fs, recentChangesPaths, i, map) ==
    IF i > Len(recentChangesPaths) THEN [map |-> map, err |-> "nil"]
    ELSE LET recentChangesPath == recentChangesPaths[i]
             language == FindLocale(recentChangesPath)
             content == fs[BaseName(dir, recentChangesPath)]
         IN  IF language = <<>>
             THEN ReadLoop(dir, fs, recentChangesPaths, i + 1, map)
             ELSE IF content = "unreadable"
             THEN [map |-> <<>>, err |-> "read error"]
             ELSE ReadLoop(dir, fs, recentChangesPaths, i + 1,
                           (language :> content) @@ map)

readLocalisedRecentChanges(dir, fs) ==
    IF BadPattern(PathJoin(dir, <<"whatsnew-", "*">>))
    THEN [map |-> <<>>, err |-> "syntax error in pattern"]
    ELSE ReadLoop(dir, fs, Glob(dir, fs), 1, <<>>)

----------------------------------------------------------------------------
(* track release *)

Statuses ==
    {"", releaseStatusCompleted, releaseStatusInProgress, releaseStatusDraft,
     releaseStatusHalted, "other"}

\* user fractions in tenths: 0, 0.3 and 1.0
Fractions == {0, 3, 10}

Configs ==
    [Status : Statuses, UserFraction : Fractions, ReleaseName : {"", "v1"},
     WhatsnewsDir : Dirs]

NoConfig ==
    [Status |-> "", UserFraction |-> 0, ReleaseName |-> "", WhatsnewsDir |-> <<>>]

\* the nil *androidpublisher.TrackRelease
nilRelease ==
    [nil |-> TRUE, Status |-> "", UserFraction |-> 0, Name |-> "",
     ReleaseNotes |-> <<>>]

\* the orders in which a range statement may visit the keys of a map
Orders(keys) ==
    {o \in [1..Cardinality(keys) -> keys] :
        \A i, j \in 1..Cardinality(keys) : i # j => o[i] # o[j]}

releaseStatusFromConfigSwapped(userFraction) ==
    IF userFraction # 0 THEN releaseStatusCompleted ELSE releaseStatusInProgress

releaseStatusFromConfig(userFraction) ==
    IF userFraction # 0 THEN releaseStatusInProgress ELSE releaseStatusCompleted

shouldApplyUserFractionAnyButCompleted(status) ==
    status # releaseStatusCompleted

shouldApplyUserFraction(status) ==
    status = releaseStatusInProgress \/ status = releaseStatusHalted

updateListingSwallow(whatsNewsDir, release, fs, order) ==
    IF whatsNewsDir # <<>>
    THEN LET read == readLocalisedRecentChanges(whatsNewsDir, fs)
         IN  [release |-> [release EXCEPT !.ReleaseNotes =
                              IF read.err # "nil" THEN <<>>
                              ELSE [i \in 1..Len(order) |->
                                      [Language |-> order[i],
                                       Text |-> read.map[order[i]]]]],
              err |-> "nil", calls |-> 1]
    ELSE [release |-> release, err |-> "nil", calls |-> 0]

\* order: the order in which the range over recentChangesMap visits its keys
updateListing(whatsNewsDir, release, fs, order) ==
    IF whatsNewsDir # <<>>
    THEN LET read == readLocalisedRecentChanges(whatsNewsDir, fs)
         IN  IF read.err # "nil"
             THEN [release |-> release, err |-> "failed to read whatsnews",
                   calls |-> 1]
             ELSE [release |-> [release EXCEPT !.ReleaseNotes =
                                  [i \in 1..Len(order) |->
                                      [Language |-> order[i],
                                       Text |-> read.map[order[i]]]]],
                   err |-> "nil", calls |-> 1]
    ELSE [release |-> release, err |-> "nil", calls |-> 0]

createTrackRelease(cfg, fs, order) ==
    LET r1 == [nil |-> FALSE, Status |-> cfg.Status, UserFraction |-> 0,
               Name |-> "", ReleaseNotes |-> <<>>]
        r2 == IF r1.Status = ""
              THEN [r1 EXCEPT !.Status = releaseStatusFromConfig(cfg.UserFraction)]
              ELSE r1
        r3 == IF shouldApplyUserFraction(r2.Status)
              THEN [r2 EXCEPT !.UserFraction = cfg.UserFraction]
              ELSE r2
        r4 == IF cfg.ReleaseName # ""
              THEN [r3 EXCEPT !.Name = cfg.ReleaseName]
              ELSE r3
        listing == updateListing(cfg.WhatsnewsDir, r4, fs, order)
    IN  IF listing.err # "nil"
        THEN [release |-> nilRelease, err |-> "failed to update listing",
              calls |-> listing.calls]
        ELSE [release |-> listing.release, err |-> "nil", calls |-> listing.calls]

----------------------------------------------------------------------------
(* the calls *)

\* what a call leaves of the state of the expansion file upload before it
NoExp == expFileEntry' = <<>> /\ expFilePth' = <<>> /\ expFileType' = <<>>

\* no remote answer, no error text and no artifact
NoRemote == remoteErr' = <<>> /\ msg' = <<>> /\ artifact' = "nil"

\* no release was built
NoRelease == config' = NoConfig /\ newRelease' = nilRelease

\* no release notes were read
NoNotes ==
    /\ recentChangesDir' = <<>>
    /\ files' = NoFiles
    /\ recentChangesMap' = <<>>
    /\ readErr' = "nil"
    /\ readerCalls' = 0

\* handles held by the call in progress: the *os.File handed to Media()
Held == IF pc \in {"exp_do", "map_do"} THEN 1 ELSE 0

Init ==
    /\ pc = "idle"
    /\ op = "none"
    /\ expFileEntry = <<>> /\ expFilePth = <<>> /\ expFileType = <<>>
    /\ err = "nil"
    /\ opened = 0
    /\ netCalls = 0
    /\ failed = {}
    /\ openFiles = 0
    /\ remoteErr = <<>> /\ msg = <<>> /\ artifact = "nil"
    /\ config = NoConfig /\ newRelease = nilRelease
    /\ recentChangesDir = <<>>
    /\ files = NoFiles
    /\ recentChangesMap = <<>>
    /\ readErr = "nil"
    /\ readerCalls = 0

\* uploadExpansionFiles, lines 28-36: trim, validate and parse the entry
UploadExpansionFilesParse ==
    /\ pc = "idle"
    /\ \E e \in Entries :
          LET cleanExpFileConfigEntry == TrimSpace(e)
              info == expFileInfo(cleanExpFileConfigEntry)
          IN  /\ expFileEntry' = e
              /\ IF ~validateExpansionFileConfig(cleanExpFileConfigEntry)
                 THEN /\ err' = "invalid expansion file config"
                      /\ failed' = {"validate"}
                      /\ expFilePth' = <<>> /\ expFileType' = <<>>
                      /\ pc' = "done"
                 ELSE IF info.err # "nil"
                 THEN /\ err' = info.err
                      /\ failed' = {"validate"}
                      /\ expFilePth' = <<>> /\ expFileType' = <<>>
                      /\ pc' = "done"
                 ELSE /\ err' = "nil"
                      /\ failed' = {}
                      /\ expFilePth' = info.pth /\ expFileType' = info.type
                      /\ pc' = "exp_open"
    /\ op' = "uploadExpansionFiles"
    /\ opened' = 0 /\ netCalls' = 0
    /\ NoRemote /\ NoRelease /\ NoNotes
    /\ UNCHANGED openFiles

\* uploadExpansionFiles, lines 37-40: os.Open(expFilePth)
UploadExpansionFilesOpen ==
    /\ pc = "exp_open"
    /\ opened' = opened + 1
    /\ \E ok \in BOOLEAN :
          /\ ok => openFiles < MaxOpenFiles
          /\ IF ok
             THEN /\ openFiles' = openFiles + 1
                  /\ pc' = "exp_do"
                  /\ UNCHANGED <<err, failed>>
             ELSE /\ err' = "failed to read expansion file"
                  /\ failed' = failed \cup {"open"}
                  /\ pc' = "done"
                  /\ UNCHANGED openFiles
    /\ UNCHANGED <<op, expFileEntry, expFilePth, expFileType, netCalls,
                   remoteErr, msg, artifact, config, newRelease,
                   recentChangesDir, files, recentChangesMap, readErr,
                   readerCalls>>

\* uploadExpansionFiles, lines 41-49: the upload call and the return
UploadExpansionFilesDo ==
    /\ pc = "exp_do"
    /\ netCalls' = netCalls + 1
    /\ \E ok \in BOOLEAN :
          IF ok
          THEN UNCHANGED <<err, failed>>
          ELSE /\ err' = "failed to upload expansion file"
               /\ failed' = failed \cup {"remote"}
    /\ pc' = "done"
    /\ UNCHANGED <<op, expFileEntry, expFilePth, expFileType, opened, openFiles,
                   remoteErr, msg, artifact, config, newRelease,
                   recentChangesDir, files, recentChangesMap, readErr,
                   readerCalls>>

\* uploadMappingFile, lines 79-83: os.Open(filePath)
UploadMappingFileOpen ==
    /\ pc = "idle"
    /\ op' = "uploadMappingFile"
    /\ opened' = 1 /\ netCalls' = 0
    /\ \E ok \in BOOLEAN :
          /\ ok => openFiles < MaxOpenFiles
          /\ IF ok
             THEN /\ openFiles' = openFiles + 1
                  /\ err' = "nil"
                  /\ failed' = {}
                  /\ pc' = "map_do"
             ELSE /\ err' = "failed to read mapping file"
                  /\ failed' = {"open"}
                  /\ pc' = "done"
                  /\ UNCHANGED openFiles
    /\ NoExp /\ NoRemote /\ NoRelease /\ NoNotes

\* uploadMappingFile, lines 84-94: the upload call and the return
UploadMappingFileDo ==
    /\ pc = "map_do"
    /\ netCalls' = netCalls + 1
    /\ \E ok \in BOOLEAN :
          IF ok
          THEN UNCHANGED <<err, failed>>
          ELSE /\ err' = "failed to upload mapping file"
               /\ failed' = failed \cup {"remote"}
    /\ pc' = "done"
    /\ UNCHANGED <<op, expFileEntry, expFilePth, expFileType, opened, openFiles,
                   remoteErr, msg, artifact, config, newRelease,
                   recentChangesDir, files, recentChangesMap, readErr,
                   readerCalls>>

\* what Do() answers: success, or an error with a text
Answers ==
    {[ok |-> TRUE, text |-> <<>>]} \cup {[ok |-> FALSE, text |-> e] : e \in ErrTexts}

\* uploadAppBundle, lines 98-116
UploadAppBundle ==
    /\ pc = "idle"
    /\ op' = "uploadAppBundle"
    /\ opened' = 0 /\ netCalls' = 1
    /\ \E answer \in Answers :
          /\ remoteErr' = answer.text
          /\ IF answer.ok
             THEN /\ err' = "nil" /\ failed' = {}
                  /\ msg' = <<>> /\ artifact' = "bundle"
             ELSE /\ err' = "failed to upload app bundle"
                  /\ failed' = {"remote"}
                  /\ msg' = uploadAppBundleError(answer.text)
                  /\ artifact' = "nil"
    /\ pc' = "done"
    /\ NoExp /\ NoRelease /\ NoNotes
    /\ UNCHANGED openFiles

UploadAppApkRetry ==
    /\ pc = "idle"
    /\ op' = "uploadAppApk"
    /\ opened' = 0
    /\ \E answer \in Answers :
          /\ remoteErr' = answer.text
          /\ netCalls' = IF answer.ok THEN 1 ELSE 2
          /\ failed' = IF answer.ok THEN {} ELSE {"remote"}
          /\ err' = "nil" /\ msg' = <<>> /\ artifact' = "apk"
    /\ pc' = "done"
    /\ NoExp /\ NoRelease /\ NoNotes
    /\ UNCHANGED openFiles

\* uploadAppApk, lines 119-132
UploadAppApk ==
    /\ pc = "idle"
    /\ op' = "uploadAppApk"
    /\ opened' = 0 /\ netCalls' = 1
    /\ \E answer \in Answers :
          /\ remoteErr' = answer.text
          /\ IF answer.ok
             THEN /\ err' = "nil" /\ failed' = {}
                  /\ msg' = <<>> /\ artifact' = "apk"
             ELSE /\ err' = "failed to upload apk"
                  /\ failed' = {"remote"}
                  /\ msg' = << "failed to upload apk, error: " >> \o answer.text
                  /\ artifact' = "nil"
    /\ pc' = "done"
    /\ NoExp /\ NoRelease /\ NoNotes
    /\ UNCHANGED openFiles

\* createTrackRelease, lines 200-225, with updateListing and the reader
CreateTrackRelease ==
    /\ pc = "idle"
    /\ op' = "createTrackRelease"
    /\ \E cfg \in Configs :
       \E fs \in (IF cfg.WhatsnewsDir = <<>> THEN {NoFiles} ELSE FileSystems) :
          LET read == readLocalisedRecentChanges(cfg.WhatsnewsDir, fs)
          IN  \E order \in Orders(DOMAIN read.map) :
                 LET r == createTrackRelease(cfg, fs, order)
                 IN  /\ config' = cfg
                     /\ newRelease' = r.release
                     /\ err' = r.err
                     /\ failed' = IF r.calls > 0 /\ read.err # "nil"
                                  THEN {"read"} ELSE {}
                     /\ recentChangesDir' = cfg.WhatsnewsDir
                     /\ files' = fs
                     /\ readerCalls' = r.calls
                     /\ recentChangesMap' = IF r.calls > 0 THEN read.map ELSE <<>>
                     /\ readErr' = IF r.calls > 0 THEN read.err ELSE "nil"
    /\ opened' = 0 /\ netCalls' = 0
    /\ pc' = "done"
    /\ NoExp /\ NoRemote
    /\ UNCHANGED openFiles

\* readLocalisedRecentChanges, lines 160-197, called on its own
ReadLocalisedRecentChanges ==
    /\ pc = "idle"
    /\ op' = "readLocalisedRecentChanges"
    /\ \E dir \in Dirs, fs \in FileSystems :
          LET read == readLocalisedRecentChanges(dir, fs)
          IN  /\ recentChangesDir' = dir
              /\ files' = fs
              /\ recentChangesMap' = read.map
              /\ readErr' = read.err
              /\ err' = read.err
              /\ failed' = IF read.err # "nil" THEN {"read"} ELSE {}
    /\ readerCalls' = 1
    /\ opened' = 0 /\ netCalls' = 0
    /\ pc' = "done"
    /\ NoExp /\ NoRemote /\ NoRelease
    /\ UNCHANGED openFiles

\* the finalizer os.Open sets on the *os.File closes a handle that no call
\* holds any more, at a time the garbage collector chooses; the functions
\* themselves never call Close
Finalize ==
    /\ openFiles > Held
    /\ openFiles' = openFiles - 1
    /\ UNCHANGED <<pc, op, expFileEntry, expFilePth, expFileType, err, opened,
                   netCalls, failed, remoteErr, msg, artifact, config,
                   newRelease, recentChangesDir, files, recentChangesMap,
                   readErr, readerCalls>>

\* the caller has taken the result and is ready for its next call
NextCall ==
    /\ pc = "done"
    /\ pc' = "idle"
    /\ op' = "none"
    /\ err' = "nil" /\ failed' = {}
    /\ opened' = 0 /\ netCalls' = 0
    /\ NoExp /\ NoRemote /\ NoRelease /\ NoNotes
    /\ UNCHANGED openFiles

Next ==
    \/ NextCall
    \/ Finalize
    \/ UploadMappingFileOpen
    \/ UploadMappingFileDo
    \/ UploadExpansionFilesOpen
    \/ UploadExpansionFilesDo
    \/ UploadAppBundle
    \/ UploadAppApk
    \/ ReadLocalisedRecentChanges
    \/ UploadExpansionFilesParse
    \/ CreateTrackRelease

Spec == Init /\ [][Next]_vars

----------------------------------------------------------------------------
(* Properties *)

RolloutStatuses == {releaseStatusInProgress, releaseStatusHalted}

\* the status a release is to end with, as the documentation states it
FinalStatus(cfg) ==
    IF cfg.Status # "" THEN cfg.Status
    ELSE IF cfg.UserFraction # 0 THEN "inProgress" ELSE "completed"

Built == pc = "done" /\ op = "createTrackRelease"

\* C1: a release returned by createTrackRelease carries config.UserFraction
\* when its final status is inProgress or halted and the zero fraction for
\* every other status; a fraction that is dropped is no error: whenever the
\* release notes can be read the build succeeds.
C1_FractionOnlyOnRollout ==
    Built =>
       /\ err = "nil" =>
             /\ ~newRelease.nil
             /\ newRelease.Status \in RolloutStatuses
                   => newRelease.UserFraction = config.UserFraction
             /\ newRelease.Status \notin RolloutStatuses
                   => newRelease.UserFraction = 0
       /\ (FinalStatus(config) \notin RolloutStatuses /\ readErr = "nil")
             => err = "nil"

C1_Witness ==
    /\ Built
    /\ config.Status = "draft" /\ config.UserFraction = 3
    /\ err = "nil"
    /\ newRelease.Status = "draft" /\ newRelease.UserFraction = 0

\* C2: the status of the release built by createTrackRelease is config.Status
\* when that is not empty, else inProgress for a non-zero user fraction and
\* completed for a zero one.
C2_FinalStatus ==
    (Built /\ err = "nil") => newRelease.Status = FinalStatus(config)

C2_Witness ==
    /\ Built /\ err = "nil"
    /\ config.Status = "" /\ config.UserFraction = 3
    /\ newRelease.Status = "inProgress"

\* the index of the first ":" of s (0 when there is none)
FirstColon(s) ==
    IF \A i \in 1..Len(s) : s[i] # ":" THEN 0
    ELSE CHOOSE i \in 1..Len(s) : s[i] = ":" /\ \A j \in 1..(i - 1) : s[j] # ":"

TypeSegment(s) == SubSeq(s, 1, FirstColon(s) - 1)

Remainder(s) == SubSeq(s, FirstColon(s) + 1, Len(s))

\* the entry has the form "main:<p>" or "patch:<p>" once trimmed
WellFormed(entry) ==
    LET clean == TrimSpace(entry)
    IN  FirstColon(clean) > 0 /\ TypeSegment(clean) \in {<<"main">>, <<"patch">>}

Parsed == op = "uploadExpansionFiles" /\ pc \in {"exp_open", "exp_do", "done"}

\* C3: for an entry whose path holds colons, the path expFileInfo returns is
\* the whole remainder of the entry after its first colon, colons included.
C3_ColonsPreserved ==
    (/\ Parsed
     /\ WellFormed(expFileEntry)
     /\ Contains(Remainder(TrimSpace(expFileEntry)), <<":">>))
        => expFilePth = TrimSpace(Remainder(TrimSpace(expFileEntry)))

\* C4: an entry "main:<p>" or "patch:<p>" parses to the type main or patch and
\* to the path <p> trimmed; an entry without a colon, or whose type segment
\* is not exactly main or patch, is rejected as an invalid config.
C4_ParseOrReject ==
    Parsed =>
       IF WellFormed(expFileEntry)
       THEN /\ "validate" \notin failed
            /\ expFileType = TypeSegment(TrimSpace(expFileEntry))
            /\ expFilePth = TrimSpace(Remainder(TrimSpace(expFileEntry)))
       ELSE /\ pc = "done"
            /\ err = "invalid expansion file config"

\* C5: with an invalid entry uploadExpansionFiles returns the invalid config
\* error and opens no file and makes no remote call, in every state of the
\* call.
C5_InvalidBeforeOpen ==
    (op = "uploadExpansionFiles" /\ ~WellFormed(expFileEntry)) =>
       /\ opened = 0
       /\ netCalls = 0
       /\ pc = "done"
       /\ err = "invalid expansion file config"

C5_Witness ==
    /\ op = "uploadExpansionFiles" /\ pc = "done"
    /\ expFileEntry = <<"Main", ":", "a">>
    /\ err = "invalid expansion file config"
    /\ opened = 0 /\ netCalls = 0

\* C6: when the remote bundle upload fails no bundle is returned, and the
\* message of the error is the remote error text behind the upload context,
\* followed by the acknowledgement hint exactly when the remote text holds
\* the installation warning.
C6_HintIffWarning ==
    (pc = "done" /\ op = "uploadAppBundle" /\ "remote" \in failed) =>
       /\ err # "nil"
       /\ artifact = "nil"
       /\ msg = IF Contains(remoteErr, bundleInstallationWarning)
                THEN uploadAppBundleContext \o remoteErr \o ackHint
                ELSE uploadAppBundleContext \o remoteErr

\* the names of the files of fs that are called whatsnew-<locale>
WhatsnewFiles(fs) ==
    {n \in FileNames : fs[n] # "absent" /\ Head(n) = "whatsnew-"}

\* C7: for readable files readLocalisedRecentChanges returns without error a
\* map whose keys are exactly the <locale> of the files whatsnew-<locale> of
\* the directory, each mapped to the content of its file, whatever the
\* directory is called.
C7_LocaleKeys ==
    (/\ pc = "done" /\ op = "readLocalisedRecentChanges"
     /\ \A n \in FileNames : files[n] # "unreadable")
        => /\ readErr = "nil"
           /\ DOMAIN recentChangesMap = {Tail(n) : n \in WhatsnewFiles(files)}
           /\ \A n \in WhatsnewFiles(files) : recentChangesMap[Tail(n)] = files[n]

\* C8: createTrackRelease fails, returning no release, exactly when
\* WhatsnewsDir is set and reading the notes fails; with an empty WhatsnewsDir
\* the reader is not called and no notes are attached; when the reader
\* succeeds the release notes hold one entry for each pair of its map and no
\* language twice.
C8_NotesAttached ==
    Built =>
       LET notes == newRelease.ReleaseNotes
       IN  /\ err # "nil" <=> (config.WhatsnewsDir # <<>> /\ readErr # "nil")
           /\ err # "nil" => newRelease.nil
           /\ config.WhatsnewsDir = <<>> =>
                 readerCalls = 0 /\ notes = <<>> /\ ~newRelease.nil
           /\ (config.WhatsnewsDir # <<>> /\ readErr = "nil") =>
                 /\ readerCalls = 1
                 /\ {notes[i] : i \in 1..Len(notes)} =
                       {[Language |-> k, Text |-> recentChangesMap[k]] :
                           k \in DOMAIN recentChangesMap}
                 /\ \A i, j \in 1..Len(notes) :
                       notes[i].Language = notes[j].Language => i = j

C8_Witness ==
    /\ Built /\ err = "nil"
    /\ config.WhatsnewsDir = <<"notes">>
    /\ Len(newRelease.ReleaseNotes) = 2

\* C9: when uploadExpansionFiles or uploadMappingFile has returned, no file
\* handle that it opened is still open.
C9_HandlesReleased ==
    pc \in {"idle", "done"} => openFiles = 0

Uploads ==
    {"uploadAppBundle", "uploadAppApk", "uploadExpansionFiles", "uploadMappingFile"}

\* C10: an upload makes at most one remote call, makes none after a failed
\* step, and returns an error exactly when one of its steps failed.
C10_SingleShot ==
    op \in Uploads =>
       /\ netCalls <= 1
       /\ failed # {} => pc = "done"
       /\ pc = "done" => (err # "nil" <=> failed # {})
       /\ "remote" \in failed => netCalls = 1
       /\ (failed # {} /\ "remote" \notin failed) => netCalls = 0

C10_Witness ==
    /\ op = "uploadExpansionFiles" /\ pc = "done"
    /\ failed = {"remote"} /\ netCalls = 1
    /\ err = "failed to upload expansion file"

====
